---------------------------- MODULE Spec2Model ----------------------------
(***************************************************************************)
(* A model of the exoplanet host-star explorer: src/starmap.py             *)
(* (create_starmap, generate_blurbs) and the Streamlit script              *)
(* src/viewer.py.                                                          *)
(*                                                                         *)
(* Three families of behaviours are described over one set of variables:   *)
(*   SpecBlurb    a single call generate_blurbs(row);                      *)
(*   SpecDrop, SpecAgg, SpecCoord                                          *)
(*                a single call create_starmap(df_filt) on frames drawn    *)
(*                from three input families;                               *)
(*   SpecFilter, SpecSelect                                                *)
(*                runs of the viewer script, one per UI event.             *)
(*                                                                         *)
(* Cell values of a pandas frame are tagged records: a number, a string,   *)
(* a boolean or NaN/None.  Numbers are integers (parsecs, degrees, years). *)
(***************************************************************************)
EXTENDS Integers, Sequences, FiniteSets, TLC

VARIABLES
    row,              \* generate_blurbs: the argument (a Series: column -> value)
    result,           \* generate_blurbs: what the call returned or raised
    df_in,            \* create_starmap: the caller's frame as it was before the call
    df_filt,          \* the frame handed to create_starmap (the caller's object)
    df_hosts,         \* create_starmap's local per-host frame
    fig,              \* the figure create_starmap returned
    exc,              \* the exception that ended the call / the script run ("" if none)
    pc,               \* position: "start" / "open" before the call or the first run,
                      \* "ran" after it, "rerun" when st.rerun() is pending
    df,               \* viewer: the planet catalog (load_planets)
    sliders,          \* viewer: the three range sliders
    spectral_groups,  \* viewer: the multiselect's value
    selected_host,    \* viewer: st.session_state.selected_host
    chartSel,         \* viewer: the selection state of the plotly chart widget
    df_pre_filt,      \* viewer: rows left by the slider filters
    panel             \* viewer: what the "Selected Star Spotlight" shows

vars == <<row, result, df_in, df_filt, df_hosts, fig, exc, pc, df, sliders,
          spectral_groups, selected_host, chartSel, df_pre_filt, panel>>

-----------------------------------------------------------------------------
(* Cell values *)

NaN == [k |-> "nan", n |-> 0, s |-> ""]
Num(n) == [k |-> "num", n |-> n, s |-> ""]
Str(s) == [k |-> "str", n |-> 0, s |-> s]
Bool(b) == [k |-> "bool", n |-> IF b THEN 1 ELSE 0, s |-> ""]
None == [k |-> "none", n |-> 0, s |-> ""]

\* pd.notna(v)
NotNa(v) == v.k \notin {"nan", "none"}

\* Python truthiness of a cell value (float nan is truthy)
Truthy(v) ==
    CASE v.k = "nan"  -> TRUE
      [] v.k = "none" -> FALSE
      [] v.k = "num"  -> v.n # 0
      [] v.k = "bool" -> v.n = 1
      [] v.k = "str"  -> v.s # ""

\* Series.get(key, default)
Get(r, key, default) == IF key \in DOMAIN r THEN r[key] ELSE default

Range(f) == {f[i] : i \in DOMAIN f}

-----------------------------------------------------------------------------
(* Strings.  TLC's strings are atomic, so the characters of every string   *)
(* whose characters the program inspects are tabulated here.               *)

Chars ==
    ("" :> <<>>) @@
    ("G2V" :> <<"G", "2", "V">>) @@
    ("K2III" :> <<"K", "2", "I", "I", "I">>) @@
    ("F5IV" :> <<"F", "5", "I", "V">>) @@
    ("M3V" :> <<"M", "3", "V">>) @@
    ("m3" :> <<"m", "3">>) @@
    ("sdB" :> <<"s", "d", "B">>) @@
    ("DA" :> <<"D", "A">>) @@
    ("mysterious" :> <<"m", "y", "s", "t", "e", "r", "i", "o", "u", "s">>)

LowerLetters == <<"a", "b", "c", "d", "e", "f", "g", "h", "i", "j", "k", "l", "m",
                  "n", "o", "p", "q", "r", "s", "t", "u", "v", "w", "x", "y", "z">>
UpperLetters == <<"A", "B", "C", "D", "E", "F", "G", "H", "I", "J", "K", "L", "M",
                  "N", "O", "P", "Q", "R", "S", "T", "U", "V", "W", "X", "Y", "Z">>

UpperChar(c) ==
    IF \E i \in DOMAIN LowerLetters : LowerLetters[i] = c
    THEN UpperLetters[CHOOSE i \in DOMAIN LowerLetters : LowerLetters[i] = c]
    ELSE c

\* str.upper() on a character sequence
Upper(cs) == [i \in DOMAIN cs |-> UpperChar(cs[i])]

\* the string made of the characters cs
RECURSIVE Concat(_)
Concat(cs) == IF cs = <<>> THEN "" ELSE Head(cs) \o Concat(Tail(cs))

\* str.startswith(prefix) on character sequences
StartsWith(cs, prefix) ==
    /\ Len(cs) >= Len(prefix)
    /\ SubSeq(cs, 1, Len(prefix)) = prefix

\* str.startswith((p1, p2, ...))
StartsWithAny(cs, prefixes) == \E p \in prefixes : StartsWith(cs, p)

\* whether pat occurs in cs
Contains(cs, pat) ==
    \E i \in 1..(Len(cs) - Len(pat) + 1) : SubSeq(cs, i, i + Len(pat) - 1) = pat

-----------------------------------------------------------------------------
(* generate_blurbs *)

PcToLyDivisor == 308568      \* 3.08568, in units of 1e-5

\* f"{dist_pc / 3.08568:.1f}" for an integer number of parsecs: the quotient
\* rounded to tenths (no tie occurs for dist_pc in 0..1000).
DistLyText(dist_pc) ==
    LET tenths == (dist_pc * 2000000 + PcToLyDivisor) \div (2 * PcToLyDivisor)
    IN  ToString(tenths \div 10) \o "." \o ToString(tenths % 10)

\* int(dist_ly * LIGHT_YEAR_KM / (FASTEST_SPEED_KMH * HOURS_PER_YEAR)).
\* 9.46073e12 / (3.08568 * 692000 * 8760) = 505.7822243...; the split keeps the
\* product inside 32 bits and agrees with the float result for 0..1000 pc.
TravelYears(dist_pc) == dist_pc * 505 + (dist_pc * 782224) \div 1000000

Pad3(n) == IF n < 10 THEN "00" \o ToString(n)
           ELSE IF n < 100 THEN "0" \o ToString(n) ELSE ToString(n)

\* f"{n:,}"
RECURSIVE Thousands(_)
Thousands(n) ==
    IF n < 1000 THEN ToString(n)
    ELSE Thousands(n \div 1000) \o "," \o Pad3(n % 1000)

M_DESC == "a chill red dwarf that's basically immortal (trillions of years potential lifespan)"
K_DESC == "a cozy orange dwarf - long-lived and pretty forgiving for planets"
G_DESC == "a proper Sun-like yellow star (the classic 'Goldilocks' host)"
F_DESC == "a bright white-yellow hotshot (shorter life but dazzling)"
OTHER_DESC == "an intriguing star of type "
HZ_NO == "probably not - wrong orbit or too extreme"
HZ_YES == "At least one might be in the sweet spot for liquid water (fingers crossed for aliens)"

\* the if/elif chain on spt, the upper-cased characters of the spectral type
StarDesc(spt) ==
    IF StartsWith(spt, <<"M">>) THEN M_DESC
    ELSE IF StartsWith(spt, <<"K">>) THEN K_DESC
    ELSE IF StartsWith(spt, <<"G">>) THEN G_DESC
    ELSE IF StartsWith(spt, <<"F">>) THEN F_DESC
    ELSE OTHER_DESC \o Concat(spt)

Raised(e) == [exc |-> e, blurb |-> [hostname |-> "", star_desc |-> "", dist_ly |-> "",
                                    num_pl |-> "", plural |-> "", pl_list |-> "",
                                    hz_status |-> "", travel_years |-> "", text |-> ""]]

\* .upper() on the value row.get('st_spectype', 'mysterious')
SptKeepCase(v) == Chars[v.s]
SptUpper(v) == Upper(Chars[v.s])

\* the f-string, with its seven holes filled
BlurbText(b) ==
    "**" \o b.hostname \o "** This " \o b.star_desc \o " is approximately "
    \o b.dist_ly \o " light-years from us. It has **" \o b.num_pl \o " planet"
    \o b.plural \o "** (" \o b.pl_list \o "). Habitable zone? " \o b.hz_status
    \o " Roughly **" \o b.travel_years \o " years** one-way."

GenerateBlurbs(r) ==
    IF "hostname" \notin DOMAIN r THEN Raised("KeyError")
    ELSE LET sv == Get(r, "st_spectype", Str("mysterious")) IN
    IF sv.k # "str" THEN Raised("AttributeError")
    ELSE IF "sy_pnum" \notin DOMAIN r THEN Raised("KeyError")
    ELSE IF "pl_name" \notin DOMAIN r THEN Raised("KeyError")
    ELSE IF "sy_dist" \notin DOMAIN r THEN Raised("KeyError")
    ELSE IF r["sy_dist"].k \in {"str", "none"} THEN Raised("TypeError")
    ELSE IF r["sy_dist"].k = "nan" THEN Raised("ValueError")
    ELSE
      LET spt == SptUpper(sv)
          num_pl == IF NotNa(r["sy_pnum"]) THEN r["sy_pnum"].n ELSE 0
          pl_list == IF NotNa(r["pl_name"]) THEN r["pl_name"].s ELSE "none known yet"
          dist_pc == r["sy_dist"].n
          b == [hostname |-> r["hostname"].s,
                star_desc |-> StarDesc(spt),
                dist_ly |-> DistLyText(dist_pc),
                num_pl |-> ToString(num_pl),
                plural |-> IF num_pl # 1 THEN "s" ELSE "",
                pl_list |-> pl_list,
                hz_status |-> IF Truthy(Get(r, "potentially_habitable", Bool(FALSE)))
                              THEN HZ_YES ELSE HZ_NO,
                travel_years |-> Thousands(TravelYears(dist_pc)),
                text |-> ""]
      IN  [exc |-> "", blurb |-> [b EXCEPT !.text = BlurbText(b)]]

-----------------------------------------------------------------------------
(* create_starmap *)

\* the strings pd.to_numeric parses, with their values
NumericStrings == ("10" :> 10) @@ ("0" :> 0)

\* pd.to_numeric(errors='coerce').astype('float64'), on one cell
ToNumeric(v) ==
    CASE v.k = "num"  -> v
      [] v.k = "bool" -> Num(v.n)
      [] v.k = "nan"  -> NaN
      [] v.k = "str"  -> IF v.s \in DOMAIN NumericStrings
                         THEN Num(NumericStrings[v.s]) ELSE NaN

CoordCols == {"ra", "dec", "sy_dist"}

\* lines 24-26: the three columns of the caller's frame are overwritten in place
Coerce(d) ==
    [i \in DOMAIN d |->
        [c \in DOMAIN d[i] |-> IF c \in CoordCols THEN ToNumeric(d[i][c]) ELSE d[i][c]]]

\* df_filt.dropna(subset=['ra', 'dec', 'sy_dist'])
DropNaRaDecOnly(d) == SelectSeq(d, LAMBDA r : NotNa(r["ra"]) /\ NotNa(r["dec"]))
DropNa(d) ==
    SelectSeq(d, LAMBDA r : NotNa(r["ra"]) /\ NotNa(r["dec"]) /\ NotNa(r["sy_dist"]))

\* Code-point order of the strings the program sorts (hostnames, planet names)
CodeOrder == <<"A", "B", "H1", "X", "h1", "h2">>
Rank(s) == CHOOSE i \in DOMAIN CodeOrder : CodeOrder[i] = s

\* sorted(S) for a set of strings
RECURSIVE Sorted(_)
Sorted(S) ==
    IF S = {} THEN <<>>
    ELSE LET m == CHOOSE x \in S : \A y \in S : Rank(x) <= Rank(y)
         IN  <<m>> \o Sorted(S \ {m})

\* ', '.join(names)
RECURSIVE Join(_)
Join(names) ==
    IF names = <<>> THEN ""
    ELSE IF Len(names) = 1 THEN names[1]
    ELSE names[1] \o ", " \o Join(Tail(names))

\* GroupBy 'first': the first non-null entry of the column within the group
FirstRowValue(group, col) == group[1][col]
First(group, col) ==
    IF \E i \in DOMAIN group : NotNa(group[i][col])
    THEN group[CHOOSE i \in DOMAIN group :
                  /\ NotNa(group[i][col])
                  /\ \A j \in 1..(i - 1) : ~NotNa(group[j][col])][col]
    ELSE NaN

\* GroupBy 'min': the least non-null entry, NaN if there is none
Min(group, col) ==
    LET ns == {group[i][col].n : i \in {j \in DOMAIN group : NotNa(group[j][col])}}
    IN  IF ns = {} THEN NaN ELSE Num(CHOOSE m \in ns : \A n \in ns : m <= n)

\* GroupBy 'size': the number of rows of the group
Size(group, col) == Num(Len(group))

\* lambda x: ', '.join(sorted(x.dropna().unique()))
JoinNames(group, col) ==
    Str(Join(Sorted({group[i][col].s : i \in {j \in DOMAIN group : NotNa(group[j][col])}})))

host_agg ==
    [ra |-> "first", dec |-> "first", sy_dist |-> "first", st_spectype |-> "first",
     st_teff |-> "first", st_mass |-> "first", st_rad |-> "first",
     pl_name |-> "join", sy_pnum |-> "size", disc_year |-> "min"]

ApplyAgg(group, col, how) ==
    CASE how = "first" -> First(group, col)
      [] how = "min"   -> Min(group, col)
      [] how = "size"  -> Size(group, col)
      [] how = "join"  -> JoinNames(group, col)

\* df_plot.groupby('hostname').agg(host_agg).reset_index(): one row per non-null
\* hostname, in sorted key order
GroupKeys(d) == Sorted({d[i]["hostname"].s : i \in {j \in DOMAIN d : NotNa(d[j]["hostname"])}})

Aggregate(d) ==
    LET keys == GroupKeys(d) IN
    [g \in DOMAIN keys |->
        LET group == SelectSeq(d, LAMBDA r : r["hostname"] = Str(keys[g]))
        IN  ("hostname" :> Str(keys[g])) @@
            [c \in DOMAIN host_agg |-> ApplyAgg(group, c, host_agg[c])]]

\* cos and sin of the angles the model uses, in degrees
CosDeg == (-90 :> 0) @@ (0 :> 1) @@ (90 :> 0) @@ (180 :> -1) @@ (270 :> 0)
SinDeg == (-90 :> -1) @@ (0 :> 0) @@ (90 :> 1) @@ (180 :> 0) @@ (270 :> -1)

\* SkyCoord(ra, dec, distance, frame='icrs').cartesian, for one host
Cartesian(ra, dec, dist) ==
    [x |-> dist * CosDeg[dec] * CosDeg[ra],
     y |-> dist * CosDeg[dec] * SinDeg[ra],
     z |-> dist * SinDeg[dec]]

NoFig == [title |-> "", points |-> <<>>]
DefaultTitle == "Heliocentric 3D Interactive Star Map"

\* px.scatter_3d(pd.DataFrame(), x=[0], y=[0], z=[0], title=...)
EmptyFig(title) == [title |-> title, points |-> <<[x |-> 0, y |-> 0, z |-> 0]>>]

\* one marker of the host trace: hover_name and hover_data become hovertext and
\* customdata
HostPoint(h) ==
    [hovertext |-> h["hostname"],
     customdata |-> <<h["pl_name"], h["sy_pnum"], h["disc_year"], h["sy_dist"],
                      h["st_teff"], h["st_spectype"], h["st_mass"], h["st_rad"]>>,
     x |-> h["x"], y |-> h["y"], z |-> h["z"]]

\* the trace added by fig.add_scatter3d: the Sun at the origin
SunPoint == [x |-> 0, y |-> 0, z |-> 0]

\* create_starmap(df_filt): the set of ways the call can end, each with the caller's
\* frame, the local per-host frame, the figure returned and the exception raised.
\* With an empty per-host frame, assigning the result of DataFrame.apply to a column
\* raises ValueError or not, depending on the pandas release: both are outcomes.
CreateStarmap(d) ==
    IF d = <<>>
    THEN {[df_filt |-> d, df_hosts |-> <<>>, fig |-> EmptyFig("No stars match filters"),
           exc |-> ""]}
    ELSE
      LET coerced == Coerce(d)
          hosts == Aggregate(DropNa(coerced))
          blurbs == [i \in DOMAIN hosts |-> GenerateBlurbs(hosts[i])]
      IN
      IF \E c \in CoordCols \cup DOMAIN host_agg \cup {"hostname"} : c \notin DOMAIN d[1]
      THEN {[df_filt |-> coerced, df_hosts |-> <<>>, fig |-> NoFig, exc |-> "KeyError"]}
      ELSE IF hosts = <<>>
      THEN {[df_filt |-> coerced, df_hosts |-> hosts, fig |-> NoFig, exc |-> "ValueError"],
            [df_filt |-> coerced, df_hosts |-> hosts,
             fig |-> EmptyFig("No valid coordinates"), exc |-> ""]}
      ELSE IF \E i \in DOMAIN hosts : blurbs[i].exc # ""
      THEN {[df_filt |-> coerced, df_hosts |-> hosts, fig |-> NoFig,
             exc |-> blurbs[CHOOSE i \in DOMAIN hosts :
                               /\ blurbs[i].exc # ""
                               /\ \A j \in 1..(i - 1) : blurbs[j].exc = ""].exc]}
      ELSE
        LET placed ==
              [i \in DOMAIN hosts |->
                  hosts[i] @@
                  ("fun_blurb" :> Str(blurbs[i].blurb.text)) @@
                  ("blurb" :> Str(blurbs[i].blurb.text)) @@
                  Cartesian(hosts[i]["ra"].n, hosts[i]["dec"].n, hosts[i]["sy_dist"].n)]
        IN  {[df_filt |-> coerced, df_hosts |-> placed,
              fig |-> [title |-> DefaultTitle,
                       points |-> [i \in DOMAIN placed |-> HostPoint(placed[i])]
                                  \o <<SunPoint>>],
              exc |-> ""]}

-----------------------------------------------------------------------------
(* A call generate_blurbs(row) on a host record given directly *)

NoRow == [hostname |-> Str("")]
NoResult == [exc |-> "not called", blurb |-> Raised("").blurb]

\* an optional column: absent, or present with one of the values vs
Opt(col, vs) == {<<>>} \cup {(col :> v) : v \in vs}

BlurbSpectypes == {NaN, Str(""), Str("G2V"), Str("K2III"), Str("F5IV"), Str("M3V"),
                   Str("m3"), Str("sdB"), Str("DA")}

BlurbRows ==
    { [hostname |-> Str("h1"), sy_dist |-> Num(d)] @@ a @@ b @@ c @@ e :
        d \in {0, 10, 50, 500},
        a \in Opt("st_spectype", BlurbSpectypes),
        b \in Opt("sy_pnum", {NaN, Num(1), Num(2)}),
        c \in Opt("pl_name", {NaN, Str("X"), Str("A, B")}),
        e \in Opt("potentially_habitable", {Bool(TRUE), Bool(FALSE)}) }

NoPanel == [kind |-> "none", text |-> "", button |-> FALSE]
DefaultSliders == [radii |-> <<5, 50>>, max_dist |-> <<10, 200>>, temp_range |-> <<200, 400>>]

IdleStarmap ==
    /\ df_in = <<>> /\ df_filt = <<>> /\ df_hosts = <<>>
    /\ fig = NoFig /\ exc = ""
IdleViewer ==
    /\ df = <<>>
    /\ sliders = DefaultSliders
    /\ spectral_groups = {} /\ selected_host = None /\ chartSel = <<>>
    /\ df_pre_filt = <<>> /\ panel = NoPanel

InitBlurb ==
    /\ row \in BlurbRows
    /\ result = NoResult
    /\ pc = "start"
    /\ IdleStarmap /\ IdleViewer

CallGenerateBlurbs ==
    /\ pc = "start"
    /\ result = NoResult
    /\ result' = GenerateBlurbs(row)
    /\ pc' = "ran"
    /\ UNCHANGED <<row, df_in, df_filt, df_hosts, fig, exc, df, sliders,
                   spectral_groups, selected_host, chartSel, df_pre_filt, panel>>

NextBlurb == CallGenerateBlurbs

SpecBlurb == InitBlurb /\ [][NextBlurb]_vars

-----------------------------------------------------------------------------
(* A call create_starmap(df_filt) on a frame given directly *)

MaxRows == 2

SunLike == [ra |-> Num(0), dec |-> Num(0), sy_dist |-> Num(10), st_spectype |-> Str("G2V"),
            st_teff |-> Num(5778), st_mass |-> Num(1), st_rad |-> Num(1)]
Giant == [ra |-> Num(90), dec |-> Num(0), sy_dist |-> Num(50), st_spectype |-> Str("K2III"),
          st_teff |-> Num(4800), st_mass |-> Num(2), st_rad |-> Num(10)]
Unclassified == [ra |-> Num(180), dec |-> Num(90), sy_dist |-> Num(100), st_spectype |-> NaN,
                 st_teff |-> NaN, st_mass |-> NaN, st_rad |-> NaN]

\* one catalog row: a planet p = <<name, discovery year>> of host h with star columns
Planet(h, p, star) ==
    [hostname |-> h, pl_name |-> p[1], disc_year |-> p[2], sy_pnum |-> Num(5),
     pl_rade |-> Num(10), pl_eqt |-> Num(300)] @@ star

PlanetA == <<Str("A"), Num(2010)>>
PlanetB == <<Str("B"), Num(2015)>>
PlanetUnnamed == <<NaN, NaN>>

\* frames of at most MaxRows rows drawn from R, with the default RangeIndex
Frames(R) ==
    { [i \in DOMAIN f |-> f[i] @@ ("idx" :> Num(i))] :
        f \in UNION {[1..n -> R] : n \in 0..MaxRows} }

\* rows with at most one defective coordinate
DropRows ==
    { Planet(Str(h), p, c @@ SunLike) :
        h \in {"h1", "h2"}, p \in {PlanetA, PlanetB},
        c \in {<<>>, [ra |-> Str("abc")], [dec |-> NaN], [sy_dist |-> NaN],
               [sy_dist |-> Str("10")]} }

\* rows with valid coordinates whose planet and star columns vary
AggRows ==
    { Planet(Str(h), p, star) :
        h \in {"h1", "H1"}, p \in {PlanetA, PlanetB, PlanetUnnamed},
        star \in {SunLike, Giant, Unclassified} }

\* rows at the quadrant angles
CoordRows ==
    { Planet(Str(h), PlanetA, [ra |-> Num(a), dec |-> Num(b), st_spectype |-> t] @@ SunLike) :
        h \in {"h1", "h2"}, a \in {0, 90, 270}, b \in {0, 90},
        t \in {Str("G2V"), NaN} }
    \cup
    { Planet(Str("h1"), PlanetA, [ra |-> Num(a), dec |-> Num(b), sy_dist |-> Num(0)] @@ SunLike) :
        a \in {0, 90}, b \in {0, 90} }

InitStarmap(R) ==
    /\ df_filt \in Frames(R)
    /\ df_in = df_filt
    /\ df_hosts = <<>> /\ fig = NoFig /\ exc = ""
    /\ pc = "start"
    /\ row = NoRow /\ result = NoResult
    /\ IdleViewer

CallCreateStarmap ==
    /\ pc = "start"
    /\ \E r \in CreateStarmap(df_filt) :
         /\ df_filt' = r.df_filt
         /\ df_hosts' = r.df_hosts
         /\ fig' = r.fig
         /\ exc' = r.exc
    /\ pc' = "ran"
    /\ UNCHANGED <<row, result, df_in, df, sliders, spectral_groups, selected_host,
                   chartSel, df_pre_filt, panel>>

NextStarmap == CallCreateStarmap

InitDrop == InitStarmap(DropRows)
InitAgg == InitStarmap(AggRows)
InitCoord == InitStarmap(CoordRows)

SpecDrop == InitDrop /\ [][NextStarmap]_vars
SpecAgg == InitAgg /\ [][NextStarmap]_vars
SpecCoord == InitCoord /\ [][NextStarmap]_vars

-----------------------------------------------------------------------------
(* The viewer script.  Streamlit runs it from top to bottom when the page is   *)
(* opened and again after every widget event; widget values and                *)
(* st.session_state survive from one run to the next.                          *)

\* Series.between(lo, hi): inclusive, False for a null cell
Between(v, range) == v.k = "num" /\ range[1] <= v.n /\ v.n <= range[2]

\* lines 38-42; radii are in tenths of an Earth radius
PreFilter(cat, sl) ==
    SelectSeq(cat, LAMBDA r : /\ Between(r["pl_rade"], sl.radii)
                              /\ Between(r["sy_dist"], sl.max_dist)
                              /\ Between(r["pl_eqt"], sl.temp_range))

GroupOptions == {"F-type", "G-type", "K-type", "M-type", "Giants / Evolved", "Other"}
DefaultGroups == {"K-type", "M-type"}

\* .str.upper().str.startswith(letter); the NaN of a null cell counts as False in |=
UpperStartsWith(v, letter) == v.k = "str" /\ StartsWith(Upper(Chars[v.s]), <<letter>>)

\* .str.contains('III|IV|giant|evolved', case=False, na=False)
EvolvedPatterns == {<<"I", "I", "I">>, <<"I", "V">>, <<"G", "I", "A", "N", "T">>,
                    <<"E", "V", "O", "L", "V", "E", "D">>}
ContainsEvolved(v) ==
    v.k = "str" /\ \E pat \in EvolvedPatterns : Contains(Upper(Chars[v.s]), pat)

\* .str.startswith(('F', 'G', 'K', 'M'), na=False)
StartsFGKM(v) ==
    v.k = "str" /\ StartsWithAny(Chars[v.s], {<<"F">>, <<"G">>, <<"K">>, <<"M">>})

\* lines 70-83, for one row
Mask(r, groups) ==
    LET t == r["st_spectype"] IN
    \/ "F-type" \in groups /\ UpperStartsWith(t, "F")
    \/ "G-type" \in groups /\ UpperStartsWith(t, "G")
    \/ "K-type" \in groups /\ UpperStartsWith(t, "K")
    \/ "M-type" \in groups /\ UpperStartsWith(t, "M")
    \/ "Giants / Evolved" \in groups /\ ContainsEvolved(t)
    \/ "Other" \in groups /\ ~StartsFGKM(t) /\ ~ContainsEvolved(t)

\* df_pre_filt.loc[mask, 'st_spectype'].dropna().unique()
SelectedTypes(pre, groups) ==
    {pre[i]["st_spectype"] :
        i \in {j \in DOMAIN pre : Mask(pre[j], groups) /\ NotNa(pre[j]["st_spectype"])}}

\* selected_types.any() on an object array: whether some element is truthy
AnyByLength(types) == types # {}
AnyTruthy(types) == \E t \in types : Truthy(t)

\* lines 88-91
FinalFilter(pre, groups) ==
    IF AnyTruthy(SelectedTypes(pre, groups))
    THEN SelectSeq(pre, LAMBDA r : Mask(r, groups))
    ELSE pre

\* line 116, for the first selected point
ClickedHostname(point) ==
    LET a == Get(point, "hovertext", None)
        b == Get(point, "text", None)
        c == Get(point, "customdata", <<None>>)[1]
    IN  IF Truthy(a) THEN a ELSE IF Truthy(b) THEN b ELSE c

PROMPT == "Click a star in the map to learn more about it!"
NO_DETAILS == "No details found for that star - try another point!"

\* lines 111-135: what follows a call of create_starmap that ended as cs
AfterStarmap(pre, cs, session, chart, button) ==
    LET base == [df_pre_filt |-> pre, df_filt |-> cs.df_filt, df_hosts |-> cs.df_hosts,
                 fig |-> cs.fig, exc |-> cs.exc, selected_host |-> session,
                 panel |-> NoPanel, rerun |-> FALSE]
    IN
    IF cs.exc # "" THEN base
    ELSE
      LET now == IF chart # <<>> /\ Truthy(ClickedHostname(chart[1]))
                 THEN ClickedHostname(chart[1]) ELSE session
          selected_row == SelectSeq(cs.df_filt, LAMBDA r : r["hostname"] = now)
      IN
      IF ~Truthy(now)
      THEN [base EXCEPT !.selected_host = now,
                        !.panel = [kind |-> "prompt", text |-> PROMPT, button |-> FALSE]]
      ELSE IF selected_row = <<>>
      THEN [base EXCEPT !.selected_host = now,
                        !.panel = [kind |-> "nodetails", text |-> NO_DETAILS,
                                   button |-> FALSE]]
      ELSE IF "blurb" \notin DOMAIN selected_row[1]
      THEN [base EXCEPT !.selected_host = now, !.exc = "KeyError"]
      ELSE [base EXCEPT !.selected_host = IF button THEN None ELSE now,
                        !.panel = [kind |-> "blurb", text |-> selected_row[1]["blurb"].s,
                                   button |-> TRUE],
                        !.rerun = button]

\* One run of the script: the set of ways it can end.  session: selected_host before
\* the run; chart: the selection the chart widget returns; button: whether 'Clear
\* selection' was pressed to start this run.
RunScript(cat, sl, groups, session, chart, button) ==
    LET pre == PreFilter(cat, sl) IN
    {AfterStarmap(pre, cs, session, chart, button) :
        cs \in CreateStarmap(FinalFilter(pre, groups))}

\* a run of the script with the widgets at sl, groups and chart
Render(sl, groups, chart, button) ==
    /\ \E r \in RunScript(df, sl, groups, selected_host, chart, button) :
            /\ df_pre_filt' = r.df_pre_filt
            /\ df_filt' = r.df_filt
            /\ df_hosts' = r.df_hosts
            /\ fig' = r.fig
            /\ exc' = r.exc
            /\ selected_host' = r.selected_host
            /\ panel' = r.panel
            /\ pc' = IF r.rerun THEN "rerun" ELSE "ran"
    /\ sliders' = sl
    /\ spectral_groups' = groups
    /\ chartSel' = chart
    /\ UNCHANGED <<row, result, df_in, df>>

\* the page is opened: the first run
OpenPage ==
    /\ pc = "open"
    /\ Render(sliders, spectral_groups, chartSel, FALSE)

\* st.rerun(): the run that follows at once
Rerun ==
    /\ pc = "rerun"
    /\ Render(sliders, spectral_groups, chartSel, FALSE)

\* whether the chart widget keeps its selection when the figure is built anew
KeepChoices == IF chartSel = <<>> THEN {TRUE} ELSE BOOLEAN

\* the user adds or removes one option of the multiselect.  The chart widget keeps
\* its selection if the new figure is the same element, and loses it otherwise.
ToggleGroup(options) ==
    /\ pc = "ran"
    /\ \E g \in options, keep \in KeepChoices :
         Render(sliders,
                IF g \in spectral_groups THEN spectral_groups \ {g}
                ELSE spectral_groups \cup {g},
                IF keep THEN chartSel ELSE <<>>, FALSE)

NearbyOnly == [DefaultSliders EXCEPT !.max_dist = <<10, 40>>]

\* the user moves the distance slider
MoveSlider ==
    /\ pc = "ran"
    /\ \E sl \in {DefaultSliders, NearbyOnly} \ {sliders}, keep \in KeepChoices :
         Render(sl, spectral_groups, IF keep THEN chartSel ELSE <<>>, FALSE)

\* the user clicks a marker of the chart shown by the last run
ClickPoint ==
    /\ pc = "ran"
    /\ \E p \in Range(fig.points) :
         /\ chartSel # <<p>>
         /\ Render(sliders, spectral_groups, <<p>>, FALSE)

\* the user clears the selection inside the chart
Deselect ==
    /\ pc = "ran"
    /\ chartSel # <<>>
    /\ Render(sliders, spectral_groups, <<>>, FALSE)

\* the user presses 'Clear selection', which the last run rendered
PressClear ==
    /\ pc = "ran"
    /\ panel.button
    /\ Render(sliders, spectral_groups, chartSel, TRUE)

InitViewer(catalogs) ==
    /\ df \in catalogs
    /\ sliders = DefaultSliders
    /\ spectral_groups = DefaultGroups
    /\ selected_host = None
    /\ chartSel = <<>>
    /\ df_pre_filt = <<>>
    /\ panel = NoPanel
    /\ pc = "open"
    /\ row = NoRow /\ result = NoResult
    /\ IdleStarmap

FilterTypes == {NaN, Str(""), Str("G2V"), Str("K2III"), Str("m3"), Str("DA")}

\* catalogs whose rows differ in spectral type, and one row beyond the default
\* distance range
FilterRows ==
    { Planet(Str("h1"), PlanetA, [st_spectype |-> t] @@ SunLike) : t \in FilterTypes }
    \cup
    { Planet(Str("h1"), PlanetA, [st_spectype |-> Str("F5IV"), sy_dist |-> Num(500)] @@ SunLike) }

\* catalogs of two hosts, with or without a 'blurb' column
SelectRows == { Planet(Str(h), PlanetA, star) :
                  h \in {"h1", "h2"}, star \in {SunLike, Giant, Unclassified} }
WithBlurbColumn(d) == [i \in DOMAIN d |-> d[i] @@ ("blurb" :> Str("catalog text"))]

InitFilter == InitViewer(Frames(FilterRows))
InitSelect == InitViewer(Frames(SelectRows) \cup {WithBlurbColumn(d) : d \in Frames(SelectRows)})

NextFilter ==
    \/ OpenPage
    \/ ToggleGroup(GroupOptions)

NextSelect ==
    \/ OpenPage
    \/ ToggleGroup({"G-type", "Other"})
    \/ MoveSlider
    \/ ClickPoint
    \/ Deselect
    \/ PressClear
    \/ Rerun

SpecFilter == InitFilter /\ [][NextFilter]_vars
SpecSelect == InitSelect /\ [][NextSelect]_vars

-----------------------------------------------------------------------------
(* Properties of create_starmap *)

\* whether coercion of the three coordinates of input row r succeeds
Retained(r) == \A c \in CoordCols : ToNumeric(r[c]) # NaN

\* the input rows of hostname h that coercion retains
Kept(h) == {i \in DOMAIN df_in : df_in[i]["hostname"] = h /\ Retained(df_in[i])}

\* the input rows of hostname h
GroupOf(h) == {i \in DOMAIN df_in : df_in[i]["hostname"] = h}

\* the names in ns, each once, in increasing code order, joined by ', '
IsSortedJoin(text, ns) ==
    \E q \in [1..Cardinality(ns) -> ns] :
        /\ \A a, b \in DOMAIN q : a < b => Rank(q[a]) < Rank(q[b])
        /\ text = Str(Join(q))

\* C1: a record whose RA, Dec or distance is missing or not numeric contributes to no
\* host record (count, name list, year, coordinates), a host all of whose records
\* are dropped has no host record, and no coordinate is defaulted.  (SpecDrop)
C1_DroppedRecordsContributeNothing ==
    pc = "ran" =>
        /\ \A g \in Range(df_hosts) :
             LET kept == Kept(g["hostname"]) IN
             /\ kept # {}
             /\ g["sy_pnum"] = Num(Cardinality(kept))
             /\ IsSortedJoin(g["pl_name"], {df_in[i]["pl_name"].s : i \in kept})
             /\ g["disc_year"] \in {df_in[i]["disc_year"] : i \in kept}
             /\ \A c \in CoordCols :
                  /\ g[c].k = "num"
                  /\ g[c] \in {ToNumeric(df_in[i][c]) : i \in kept}
        /\ \A i \in DOMAIN df_in :
             Kept(df_in[i]["hostname"]) = {} =>
                 \A g \in Range(df_hosts) : g["hostname"] # df_in[i]["hostname"]

\* a host with one record lacking its distance and one complete record
C1_Witness ==
    /\ pc = "ran"
    /\ Len(df_in) = 2
    /\ df_in[1]["hostname"] = Str("h1") /\ df_in[2]["hostname"] = Str("h1")
    /\ df_in[1]["sy_dist"] = NaN /\ df_in[1]["pl_name"] = Str("A")
    /\ Retained(df_in[2]) /\ df_in[2]["pl_name"] = Str("B")
    /\ Len(df_hosts) = 1
    /\ df_hosts[1]["sy_pnum"] = Num(1)
    /\ df_hosts[1]["pl_name"] = Str("B")
    /\ df_hosts[1]["disc_year"] = Num(2015)

StarCols == {"ra", "dec", "sy_dist", "st_spectype", "st_teff", "st_mass", "st_rad"}

\* one host record per hostname; count, least year and joined names of its group
AggregationOfGroups ==
    pc = "ran" =>
        /\ \A i \in DOMAIN df_in :
             Cardinality({g \in DOMAIN df_hosts :
                             df_hosts[g]["hostname"] = df_in[i]["hostname"]}) = 1
        /\ \A g \in Range(df_hosts) :
             LET grp == GroupOf(g["hostname"])
                 years == {df_in[i]["disc_year"].n :
                              i \in {j \in grp : NotNa(df_in[j]["disc_year"])}}
                 names == {df_in[i]["pl_name"].s :
                              i \in {j \in grp : NotNa(df_in[j]["pl_name"])}}
             IN  /\ grp # {}
                 /\ g["sy_pnum"] = Num(Cardinality(grp))
                 /\ IF years = {} THEN g["disc_year"] = NaN
                    ELSE /\ g["disc_year"].k = "num"
                         /\ g["disc_year"].n \in years
                         /\ \A y \in years : g["disc_year"].n <= y
                 /\ IsSortedJoin(g["pl_name"], names)

\* C2: one host record per distinct hostname (exact, case-sensitive match), with the
\* group's size, its least discovery year, its distinct planet names sorted (in
\* Python's string order) and joined by ', ', and in every star column the first
\* observed value of the group in input order: the value of the earliest record
\* of the group that has one, and a missing value when none has.  (SpecAgg)
C2_FirstObservedValue ==
    /\ AggregationOfGroups
    /\ pc = "ran" =>
         \A g \in Range(df_hosts) : \A c \in StarCols :
             LET have == {i \in GroupOf(g["hostname"]) : NotNa(df_in[i][c])} IN
             IF have = {} THEN g[c] = NaN
             ELSE g[c] = df_in[CHOOSE i \in have : \A j \in have : i <= j][c]

\* planets B (2015) then A (2010) of one host; the first record has no spectral type
C2_Witness ==
    /\ pc = "ran"
    /\ Len(df_in) = 2
    /\ df_in[1]["pl_name"] = Str("B") /\ df_in[1]["st_spectype"] = NaN
    /\ df_in[2]["pl_name"] = Str("A") /\ df_in[2]["st_spectype"] = Str("G2V")
    /\ Len(df_hosts) = 1
    /\ df_hosts[1]["pl_name"] = Str("A, B")
    /\ df_hosts[1]["sy_pnum"] = Num(2)
    /\ df_hosts[1]["disc_year"] = Num(2010)
    /\ df_hosts[1]["st_spectype"] = Str("G2V")
    /\ df_hosts[1]["ra"] = Num(180)

\* C6: the caller's frame is the same after the call as before it.  (SpecDrop)
C6_InputUnchanged == pc = "ran" => df_filt = df_in

\* C7: every host record with distance d >= 0 is placed at
\* (d cos(Dec) cos(RA), d cos(Dec) sin(RA), d sin(Dec)); (0, 0) gives (d, 0, 0),
\* (90, 0) gives (0, d, 0) and Dec = 90 gives (0, 0, d).  (SpecCoord)
C7_EveryHostPlaced ==
    pc = "ran" =>
        \A g \in Range(df_hosts) :
            LET ra == g["ra"].n
                dec == g["dec"].n
                d == g["sy_dist"].n
            IN  d >= 0 =>
                \E p \in Range(fig.points) :
                    /\ "hovertext" \in DOMAIN p
                    /\ p.hovertext = g["hostname"]
                    /\ p.x = d * CosDeg[dec] * CosDeg[ra]
                    /\ p.y = d * CosDeg[dec] * SinDeg[ra]
                    /\ p.z = d * SinDeg[dec]
                    /\ (ra = 0 /\ dec = 0) => <<p.x, p.y, p.z>> = <<d, 0, 0>>
                    /\ (ra = 90 /\ dec = 0) => <<p.x, p.y, p.z>> = <<0, d, 0>>
                    /\ dec = 90 => <<p.x, p.y, p.z>> = <<0, 0, d>>

\* what C7 says, of the calls that return a figure
PlacedWhenReturned == (pc = "ran" /\ exc # "") \/ C7_EveryHostPlaced

-----------------------------------------------------------------------------
(* Properties of the viewer script *)

\* the index labels of the rows of a frame
Index(d) == {d[i]["idx"] : i \in DOMAIN d}

\* C9: the final filtered set is the rows matching a selected group, or the whole
\* pre-filtered set when no group is selected or the matching rows carry no
\* non-empty spectral type; it lies within the pre-filtered set and is empty only
\* if that set is empty.  (SpecFilter)
C9_FinalFilteredSet ==
    pc = "ran" =>
        LET matching == {i \in DOMAIN df_pre_filt : Mask(df_pre_filt[i], spectral_groups)}
            carried == {df_pre_filt[i]["st_spectype"] : i \in matching}
            nonEmpty == \E t \in carried : t.k = "str" /\ t.s # ""
        IN  /\ Index(df_filt) =
                 IF spectral_groups = {} \/ ~nonEmpty THEN Index(df_pre_filt)
                 ELSE {df_pre_filt[i]["idx"] : i \in matching}
            /\ Index(df_filt) \subseteq Index(df_pre_filt)
            /\ df_filt = <<>> => df_pre_filt = <<>>

\* 'Other' matches only a row whose spectral type is the empty string
C9_Witness ==
    /\ pc = "ran"
    /\ spectral_groups = {"K-type", "M-type", "Other"}
    /\ Len(df_pre_filt) = 2
    /\ df_pre_filt[1]["st_spectype"] = Str("")
    /\ df_pre_filt[2]["st_spectype"] = Str("G2V")
    /\ Len(df_filt) = 2

\* C5: when the chart reports a click on the point of host h and h is among the hosts
\* of the filtered data, the run ends without an error and the spotlight shows the
\* blurb generated for h.  (SpecSelect)
C5_ClickShowsGeneratedBlurb ==
    ( /\ pc \in {"ran", "rerun"}
      /\ chartSel # <<>>
      /\ "hovertext" \in DOMAIN chartSel[1]
      /\ \E i \in DOMAIN df_filt : df_filt[i]["hostname"] = chartSel[1]["hovertext"] )
    => /\ exc = ""
       /\ panel.kind = "blurb"
       /\ \E g \in Range(df_hosts) :
            /\ g["hostname"] = chartSel[1]["hovertext"]
            /\ "blurb" \in DOMAIN g
            /\ panel.text = g["blurb"].s

\* C10: selected_host is None at first and becomes a hostname only through a click
\* that reports a non-empty hostname; pressing 'Clear selection' sets it to None, the
\* render that follows shows the prompt, and no star is selected again before the
\* user clicks a point again.  (SpecSelect)
C10_ClearSelection ==
    /\ selected_host = None
    /\ [][ /\ (selected_host' # selected_host /\ selected_host' # None) =>
                /\ chartSel' # <<>>
                /\ Truthy(selected_host')
                /\ ClickedHostname(chartSel'[1]) = selected_host'
           /\ (pc = "ran" /\ pc' = "rerun") => selected_host' = None
           /\ pc = "rerun" => (selected_host' = None /\ panel'.kind = "prompt")
           /\ (selected_host = None /\ selected_host' # None) => chartSel' # chartSel
         ]_vars

-----------------------------------------------------------------------------
(* Properties of generate_blurbs, under SpecBlurb *)

BlurbReturned == pc = "ran" /\ result.exc = ""
HasType == "st_spectype" \in DOMAIN row /\ row["st_spectype"].k = "str"

\* C3: a host record at 10 pc is reported at 32.5 light-years (1 pc = 3.26 ly, one
\* decimal place).  32.6, which 3.26 and 3.26156 both give, is accepted as well.
C3_TenParsecsInLightYears ==
    (BlurbReturned /\ row["sy_dist"] = Num(10)) =>
        result.blurb.dist_ly \in {"32.5", "32.6"}

\* C4: for a record with hostname and distance the call returns a blurb and never
\* raises; an absent or null spectral type is described as 'mysterious' and an
\* absent or null planet-name list as 'none known yet'.
C4_FallbacksNeverRaise ==
    pc = "ran" =>
        /\ result.exc = ""
        /\ ("st_spectype" \notin DOMAIN row \/ row["st_spectype"] = NaN) =>
               result.blurb.star_desc \in {OTHER_DESC \o "mysterious",
                                           OTHER_DESC \o "MYSTERIOUS"}
        /\ ("pl_name" \notin DOMAIN row \/ row["pl_name"] = NaN) =>
               result.blurb.pl_list = "none known yet"

\* C8 as stated: the bucket is chosen by the first letter of the spectral type as it
\* is written, and the 'other' phrase carries the type string character for character.
C8_LiteralType ==
    (BlurbReturned /\ HasType) =>
        LET t == row["st_spectype"].s
            first == IF Chars[t] = <<>> THEN "" ELSE Chars[t][1]
        IN  result.blurb.star_desc =
                CASE first = "M" -> M_DESC
                  [] first = "K" -> K_DESC
                  [] first = "G" -> G_DESC
                  [] first = "F" -> F_DESC
                  [] OTHER -> OTHER_DESC \o t

\* C8 amended: the bucket is chosen by the first letter of the upper-cased spectral
\* type, and the 'other' phrase carries the upper-cased type string.
C8_UpperCasedType ==
    (BlurbReturned /\ HasType) =>
        LET u == Upper(Chars[row["st_spectype"].s])
            first == IF u = <<>> THEN "" ELSE u[1]
        IN  result.blurb.star_desc =
                CASE first = "M" -> M_DESC
                  [] first = "K" -> K_DESC
                  [] first = "G" -> G_DESC
                  [] first = "F" -> F_DESC
                  [] OTHER -> OTHER_DESC \o Concat(u)

C8_Witness ==
    /\ BlurbReturned
    /\ row["hostname"] = Str("h1")
    /\ "st_spectype" \in DOMAIN row
    /\ row["st_spectype"] = Str("sdB")
    /\ result.blurb.star_desc = OTHER_DESC \o "SDB"

=============================================================================
